---- MODULE Spec2Model ----
(***************************************************************************)
(* The query engine of include/database.hpp: tables with typed columns,     *)
(* Insert with AUTO_INCREMENT / DEFAULT / NOT NULL / PRIMARY KEY rules,     *)
(* the CREATE TABLE / INSERT / SELECT statements of ExecuteQuery, and the   *)
(* Serialize / Deserialize snapshot codec.                                  *)
(*                                                                         *)
(* Text is a sequence of one-character strings; positions are 0-based as in *)
(* std::string, and NPOS stands for std::string::npos.                      *)
(***************************************************************************)
EXTENDS Integers, Sequences, FiniteSets, TLC

NPOS == -1

Min(S) == CHOOSE x \in S : \A y \in S : x <= y

Max(S) == CHOOSE x \in S : \A y \in S : x >= y

\* F(x), with x evaluated once, where it is bound
With(x, F(_)) == CHOOSE y \in {F(v) : v \in {x}} : TRUE

(* ------------------------------ text -------------------------------- *)

Lower == << "a","b","c","d","e","f","g","h","i","j","k","l","m",
            "n","o","p","q","r","s","t","u","v","w","x","y","z" >>

Upper == << "A","B","C","D","E","F","G","H","I","J","K","L","M",
            "N","O","P","Q","R","S","T","U","V","W","X","Y","Z" >>

Digits == << "0","1","2","3","4","5","6","7","8","9" >>

\* ::toupper on one character
ToUpperChar(c) ==
    IF \E i \in 1..26 : Lower[i] = c
    THEN Upper[CHOOSE i \in 1..26 : Lower[i] = c]
    ELSE c

\* std::transform(s.begin(), s.end(), s.begin(), ::toupper)
ToUpper(s) == [i \in 1..Len(s) |-> ToUpperChar(s[i])]

\* the delimiters of operator>> and the " \t\n\r" of the trim / isspace calls
IsSpace(c) == c \in {" ", "\t", "\n", "\r"}

\* s.substr(pos, n)
Substr(s, pos, n) ==
    SubSeq(s, pos + 1, IF pos + n > Len(s) THEN Len(s) ELSE pos + n)

\* s.substr(pos)
SubstrFrom(s, pos) == SubSeq(s, pos + 1, Len(s))

\* h.find(n): the first position at which n occurs in h
Find(h, n) ==
    LET ps == {p \in 0..(Len(h) - Len(n)) : SubSeq(h, p + 1, p + Len(n)) = n}
    IN  IF ps = {} THEN NPOS ELSE Min(ps)

\* h.find(c, from) for one character c
FindChar(h, c, from) ==
    LET ps == {p \in from..(Len(h) - 1) : h[p + 1] = c}
    IN  IF ps = {} THEN NPOS ELSE Min(ps)

\* h.find_first_of(chars): the first position holding ANY character of chars
FindFirstOf(h, chars) ==
    LET ps == {p \in 0..(Len(h) - 1) : \E i \in 1..Len(chars) : h[p + 1] = chars[i]}
    IN  IF ps = {} THEN NPOS ELSE Min(ps)

\* h.find_first_not_of(" \t\n\r")
FindFirstNotSpace(h) ==
    LET ps == {p \in 0..(Len(h) - 1) : ~IsSpace(h[p + 1])}
    IN  IF ps = {} THEN NPOS ELSE Min(ps)

\* h.find_last_not_of(" \t\n\r")
FindLastNotSpace(h) ==
    LET ps == {p \in 0..(Len(h) - 1) : ~IsSpace(h[p + 1])}
    IN  IF ps = {} THEN NPOS ELSE Max(ps)

\* the first position >= from holding white space, or the length of h
SkipToSpace(h, from) ==
    LET ps == {p \in from..(Len(h) - 1) : IsSpace(h[p + 1])}
    IN  IF ps = {} THEN Len(h) ELSE Min(ps)

\* the first position >= from not holding white space, or the length of h
SkipSpace(h, from) ==
    LET ps == {p \in from..(Len(h) - 1) : ~IsSpace(h[p + 1])}
    IN  IF ps = {} THEN Len(h) ELSE Min(ps)

\* while (ss >> tok) tokens.push_back(tok)
RECURSIVE Tokenize(_)
Tokenize(q) ==
    LET l == FindFirstNotSpace(q)
    IN  IF l = NPOS THEN << >>
        ELSE LET e == SkipToSpace(q, l)
             IN  << Substr(q, l, e - l) >> \o Tokenize(SubstrFrom(q, e))

\* while (std::getline(ss, colDef, ','))
RECURSIVE SplitComma(_)
SplitComma(s) ==
    IF s = << >> THEN << >>
    ELSE LET p == FindChar(s, ",", 0)
         IN  IF p = NPOS THEN << s >>
             ELSE << Substr(s, 0, p) >> \o SplitComma(SubstrFrom(s, p + 1))

(* ------------------------------ values ------------------------------ *)

\* nlohmann::json values: null, boolean, integer, string
JNull == [t |-> "null", i |-> 0, s |-> << >>]

JInt(n) == [t |-> "int", i |-> n, s |-> << >>]

JBool(b) == [t |-> "bool", i |-> IF b THEN 1 ELSE 0, s |-> << >>]

JStr(x) == [t |-> "str", i |-> 0, s |-> x]

IsDigits(s) == Len(s) > 0 /\ \A i \in 1..Len(s) : \E d \in 1..10 : Digits[d] = s[i]

DigitVal(c) == (CHOOSE d \in 1..10 : Digits[d] = c) - 1

RECURSIVE DecVal(_)
DecVal(s) ==
    IF s = << >> THEN 0
    ELSE DecVal(SubSeq(s, 1, Len(s) - 1)) * 10 + DigitVal(s[Len(s)])

\* a JSON integer: digits with no leading zero, optionally negated
IsJsonNat(s) == IsDigits(s) /\ (Len(s) = 1 \/ s[1] # "0")

\* json::parse on one scalar token: [ok, val]; ok = FALSE is a parse_error
JsonParse(tok) ==
    IF IsJsonNat(tok) THEN [ok |-> TRUE, val |-> JInt(DecVal(tok))]
    ELSE IF Len(tok) > 1 /\ tok[1] = "-" /\ IsJsonNat(SubstrFrom(tok, 1))
    THEN [ok |-> TRUE, val |-> JInt(0 - DecVal(SubstrFrom(tok, 1)))]
    ELSE IF tok = << "t","r","u","e" >> THEN [ok |-> TRUE, val |-> JBool(TRUE)]
    ELSE IF tok = << "f","a","l","s","e" >> THEN [ok |-> TRUE, val |-> JBool(FALSE)]
    ELSE IF tok = << "n","u","l","l" >> THEN [ok |-> TRUE, val |-> JNull]
    ELSE IF Len(tok) > 1 /\ tok[1] = "\"" /\ tok[Len(tok)] = "\""
            /\ FindChar(tok, "\"", 1) = Len(tok) - 1
    THEN [ok |-> TRUE, val |-> JStr(Substr(tok, 1, Len(tok) - 2))]
    ELSE [ok |-> FALSE, val |-> JNull]

\* f with key k bound to v (operator[] / push of a map entry)
Put(f, k, v) == [x \in (DOMAIN f) \cup {k} |-> IF x = k THEN v ELSE f[x]]

EmptyMap == [x \in {} |-> 0]

(* ------------------------------ tables ------------------------------ *)

\* enum class DType
DTypes == << "TEXT", "CHAR", "INT", "FLOAT", "REAL", "RELATION" >>

\* Attribute(n, t): the qualifiers default to false, defaultValue to null
Attribute(n, ty) ==
    [name |-> n, type |-> ty, isPrimaryKey |-> FALSE, isAutoIncrement |-> FALSE,
     isNotNull |-> FALSE, hasDefault |-> FALSE, defaultValue |-> JNull]

\* Value(t, d)
Value(ty, d) == [type |-> ty, data |-> d]

\* ForeignKey
ForeignKey(column, refTable, refColumn) ==
    [column |-> column, refTable |-> refTable, refColumn |-> refColumn]

\* Table(n): no columns, no rows, no foreign keys, no counters
NewTable ==
    [schema |-> << >>, rows |-> << >>, foreignKeys |-> << >>,
     autoIncCounters |-> EmptyMap]

(* ------------------------------ Insert ------------------------------ *)

\* the counter a column's auto-increment draws: operator[] yields 0 for a
\* column with no entry, and 0 starts from 1
CounterOf(counters, n) ==
    LET c == IF n \in DOMAIN counters THEN counters[n] ELSE 0
    IN  IF c = 0 THEN 1 ELSE c

\* InsertColumn with the default consulted before the auto-increment counter
InsertColumnDefaultFirst(acc, attr, values) ==
    IF attr.name \in DOMAIN values
    THEN [acc EXCEPT !.row = Put(@, attr.name, Value(attr.type, values[attr.name]))]
    ELSE IF attr.hasDefault
    THEN [acc EXCEPT !.row = Put(@, attr.name, Value(attr.type, attr.defaultValue))]
    ELSE IF attr.isAutoIncrement
    THEN [acc EXCEPT !.row = Put(@, attr.name,
                                 Value(attr.type, JInt(CounterOf(acc.counters, attr.name)))),
                     !.counters = Put(@, attr.name, CounterOf(acc.counters, attr.name) + 1)]
    ELSE IF attr.isNotNull
    THEN [acc EXCEPT !.err = "MissingRequiredColumn"]
    ELSE [acc EXCEPT !.row = Put(@, attr.name, Value(attr.type, JNull))]

\* InsertColumn with the null of an optional column left out of the row
InsertColumnAbsentNull(acc, attr, values) ==
    IF attr.name \in DOMAIN values
    THEN [acc EXCEPT !.row = Put(@, attr.name, Value(attr.type, values[attr.name]))]
    ELSE IF attr.isAutoIncrement
    THEN [acc EXCEPT !.row = Put(@, attr.name,
                                 Value(attr.type, JInt(CounterOf(acc.counters, attr.name)))),
                     !.counters = Put(@, attr.name, CounterOf(acc.counters, attr.name) + 1)]
    ELSE IF attr.hasDefault
    THEN [acc EXCEPT !.row = Put(@, attr.name, Value(attr.type, attr.defaultValue))]
    ELSE IF attr.isNotNull
    THEN [acc EXCEPT !.err = "MissingRequiredColumn"]
    ELSE acc

\* one pass of Insert's column loop over acc = [row, counters, err]
InsertColumn(acc, attr, values) ==
    IF attr.name \in DOMAIN values
    THEN [acc EXCEPT !.row = Put(@, attr.name, Value(attr.type, values[attr.name]))]
    ELSE IF attr.isAutoIncrement
    THEN LET c == CounterOf(acc.counters, attr.name)
         IN  [acc EXCEPT !.row = Put(@, attr.name, Value(attr.type, JInt(c))),
                         !.counters = Put(@, attr.name, c + 1)]
    ELSE IF attr.hasDefault
    THEN [acc EXCEPT !.row = Put(@, attr.name, Value(attr.type, attr.defaultValue))]
    ELSE IF attr.isNotNull
    THEN [acc EXCEPT !.err = "MissingRequiredColumn"]
    ELSE [acc EXCEPT !.row = Put(@, attr.name, Value(attr.type, JNull))]

\* the column loop: it stops at the first throw, the counters already advanced
\* staying advanced (they live in the table, not in the candidate row)
RECURSIVE BuildRow(_, _, _)
BuildRow(acc, schema, values) ==
    IF schema = << >> \/ acc.err # "ok" THEN acc
    ELSE With(InsertColumn(acc, Head(schema), values),
              LAMBDA a : BuildRow(a, Tail(schema), values))

\* PrimaryKeyClash with the scan starting at the second row
PrimaryKeyClashFromSecond(schema, rows, row) ==
    \E a \in 1..Len(schema) :
        /\ schema[a].isPrimaryKey
        /\ \E r \in 2..Len(rows) :
              rows[r][schema[a].name].data = row[schema[a].name].data

\* the primary-key scan: some primary-key column of the candidate row equals
\* (json operator==) that column of an existing row
PrimaryKeyClash(schema, rows, row) ==
    \E a \in 1..Len(schema) :
        /\ schema[a].isPrimaryKey
        /\ \E r \in 1..Len(rows) :
              rows[r][schema[a].name].data = row[schema[a].name].data

\* Insert(table, values): [err, table], table being the table as the call
\* leaves it, whether it returns or throws
Insert(table, values) ==
    With(BuildRow([row |-> EmptyMap, counters |-> table.autoIncCounters,
                   err |-> "ok"], table.schema, values),
         LAMBDA b :
            IF b.err # "ok"
            THEN [err |-> b.err, table |-> [table EXCEPT !.autoIncCounters = b.counters]]
            ELSE IF PrimaryKeyClash(table.schema, table.rows, b.row)
            THEN [err |-> "DuplicatePrimaryKey",
                  table |-> [table EXCEPT !.autoIncCounters = b.counters]]
            ELSE [err |-> "ok",
                  table |-> [table EXCEPT !.autoIncCounters = b.counters,
                                          !.rows = Append(@, b.row)]])

\* Select with a row that lacks the column passed over as a row that does not match
SelectSkippingMissing(table, column, value) ==
    [err |-> "ok",
     rows |-> SelectSeq(table.rows,
                        LAMBDA row : column \in DOMAIN row /\ row[column].data = value)]

\* Select(table, column, value): row.fields.at(column) throws on a row
\* without the column
Select(table, column, value) ==
    IF \E r \in 1..Len(table.rows) : column \notin DOMAIN table.rows[r]
    THEN [err |-> "ColumnNotFound", rows |-> << >>]
    ELSE [err |-> "ok",
          rows |-> SelectSeq(table.rows, LAMBDA row : row[column].data = value)]

\* CheckRows looking at the first row of the table only
CheckRowsFirstOnly(rows, fk, refTable) ==
    IF rows = << >> THEN "true"
    ELSE IF fk.column \notin DOMAIN Head(rows) THEN "ColumnNotFound"
    ELSE IF \E q \in 1..Len(refTable.rows) :
                refTable.rows[q][fk.refColumn].data = Head(rows)[fk.column].data
    THEN "true"
    ELSE "false"

\* the scan of refTable.rows for one value: "true" at the first equal value,
\* "false" at the end, and refRow.fields.at throws on a row without the column
RECURSIVE FindReferenced(_, _, _)
FindReferenced(refRows, refColumn, val) ==
    IF refRows = << >> THEN "false"
    ELSE IF refColumn \notin DOMAIN Head(refRows) THEN "ColumnNotFound"
    ELSE IF Head(refRows)[refColumn].data = val THEN "true"
    ELSE FindReferenced(Tail(refRows), refColumn, val)

\* the loop over the table's rows for one foreign key, up to the first row
\* without a referenced row
RECURSIVE CheckRows(_, _, _)
CheckRows(rows, fk, refTable) ==
    IF rows = << >> THEN "true"
    ELSE IF fk.column \notin DOMAIN Head(rows) THEN "ColumnNotFound"
    ELSE With(FindReferenced(refTable.rows, fk.refColumn, Head(rows)[fk.column].data),
              LAMBDA f : IF f # "true" THEN f ELSE CheckRows(Tail(rows), fk, refTable))

\* the loop over the foreign keys; db.GetTable throws for a missing table
RECURSIVE CheckForeignKeys(_, _, _)
CheckForeignKeys(fks, table, tables) ==
    IF fks = << >> THEN "true"
    ELSE IF Head(fks).refTable \notin DOMAIN tables THEN "TableNotFound"
    ELSE With(CheckRows(table.rows, Head(fks), tables[Head(fks).refTable]),
              LAMBDA c : IF c # "true" THEN c
                         ELSE CheckForeignKeys(Tail(fks), table, tables))

\* ValidateForeignKeys(table, db): [err, ret]
ValidateForeignKeys(table, tables) ==
    With(CheckForeignKeys(table.foreignKeys, table, tables),
         LAMBDA c : [err |-> IF c \in {"true", "false"} THEN "ok" ELSE c,
                     ret |-> c = "true"])

(* --------------------------- CREATE TABLE --------------------------- *)

\* the DEFAULT clause of a column definition: [err, has, val]
ParseDefault(modifiers, up) ==
    LET none    == [err |-> "ok", has |-> FALSE, val |-> JNull]
        defPos  == Find(up, << "D","E","F","A","U","L","T" >>)
        first   == FindFirstOf(modifiers, << "D","E","F","A","U","L","T" >>)
        origPos == IF first = NPOS THEN defPos ELSE first
        vpos    == SkipSpace(modifiers, origPos + 7)
    IN  IF defPos = NPOS THEN none
        ELSE IF vpos >= Len(modifiers) THEN none
        ELSE IF modifiers[vpos + 1] = "\""
        THEN LET endq == FindChar(modifiers, "\"", vpos + 1)
             IN  IF endq = NPOS
                 THEN [err |-> "UnterminatedDefault", has |-> FALSE, val |-> JNull]
                 ELSE [err |-> "ok", has |-> TRUE,
                       val |-> JStr(Substr(modifiers, vpos + 1, endq - vpos - 1))]
        ELSE LET endv == SkipToSpace(modifiers, vpos)
                 dv   == Substr(modifiers, vpos, endv - vpos)
                 p    == JsonParse(dv)
             IN  [err |-> "ok", has |-> TRUE,
                  val |-> IF p.ok THEN p.val ELSE JStr(dv)]

\* the type keyword of a column definition, upper-cased
IsDType(typeStr) ==
    typeStr \in { << "T","E","X","T" >>, << "C","H","A","R" >>, << "I","N","T" >>,
                  << "F","L","O","A","T" >>, << "R","E","A","L" >>,
                  << "R","E","L","A","T","I","O","N" >> }

DTypeOf(typeStr) ==
    CASE typeStr = << "T","E","X","T" >> -> "TEXT"
      [] typeStr = << "C","H","A","R" >> -> "CHAR"
      [] typeStr = << "I","N","T" >> -> "INT"
      [] typeStr = << "F","L","O","A","T" >> -> "FLOAT"
      [] typeStr = << "R","E","A","L" >> -> "REAL"
      [] OTHER -> "RELATION"

\* the body of the getline loop on one comma-separated piece:
\* [kind, err, attr] with kind "skip" (blank piece), "ok" or "err"
ParseColumn(colDef) ==
    LET l    == FindFirstNotSpace(colDef)
        r    == FindLastNotSpace(colDef)
        def  == Substr(colDef, l, r - l + 1)
        toks == Tokenize(def)
        colName == toks[1]
        typeStr == toks[2]
        posAfterType == Find(def, typeStr)
        modifiers == IF posAfterType # NPOS
                     THEN SubstrFrom(def, posAfterType + Len(typeStr))
                     ELSE << >>
        up   == ToUpper(modifiers)
        d    == ParseDefault(modifiers, up)
        none == Attribute(<< >>, "TEXT")
    IN  IF l = NPOS THEN [kind |-> "skip", err |-> "ok", attr |-> none]
        ELSE IF Len(toks) < 2
        THEN [kind |-> "err", err |-> "InvalidColumnDefinition", attr |-> none]
        ELSE IF ~IsDType(ToUpper(typeStr))
        THEN [kind |-> "err", err |-> "UnknownType", attr |-> none]
        ELSE IF d.err # "ok"
        THEN [kind |-> "err", err |-> d.err, attr |-> none]
        ELSE [kind |-> "ok", err |-> "ok",
              attr |-> [name |-> colName,
                        type |-> DTypeOf(ToUpper(typeStr)),
                        isAutoIncrement |-> Find(up, << "A","U","T","O" >>) # NPOS,
                        isPrimaryKey |->
                            /\ Find(up, << "P","R","I","M","A","R","Y" >>) # NPOS
                            /\ Find(up, << "K","E","Y" >>) # NPOS,
                        isNotNull |->
                            /\ Find(up, << "N","O","T" >>) # NPOS
                            /\ Find(up, << "N","U","L","L" >>) # NPOS,
                        hasDefault |-> d.has,
                        defaultValue |-> d.val]]

\* ParseColumn on every piece of the column list, in order
RECURSIVE ParseColumns(_)
ParseColumns(pieces) ==
    IF pieces = << >> THEN << >>
    ELSE << ParseColumn(Head(pieces)) >> \o ParseColumns(Tail(pieces))

\* table.schema.push_back(attr) and the counter's initialisation
AddColumn(table, attr) ==
    [table EXCEPT !.schema = Append(@, attr),
                  !.autoIncCounters =
                      IF attr.isAutoIncrement THEN Put(@, attr.name, 1) ELSE @]

\* the getline loop over the parsed pieces, on the table CreateTable returned:
\* [err, table]; a throw leaves the columns pushed so far in the table
RECURSIVE AddColumns(_, _)
AddColumns(table, cols) ==
    IF cols = << >> THEN [err |-> "ok", table |-> table]
    ELSE IF Head(cols).kind = "skip" THEN AddColumns(table, Tail(cols))
    ELSE IF Head(cols).kind = "err" THEN [err |-> Head(cols).err, table |-> table]
    ELSE With(AddColumn(table, Head(cols).attr),
              LAMBDA t1 : AddColumns(t1, Tail(cols)))

(* --------------------------- the database --------------------------- *)

\* Database(n): no tables, no credentials
EmptyDb == [tables |-> EmptyMap, authUser |-> "", authPassHash |-> ""]

\* Database::CreateTable: tables[tableName] = a new empty table
CreateTable(tables, tableName) == Put(tables, tableName, NewTable)

\* HashPassword: the hex text of std::hash of the password
HashPassword(pass) == "hex:" \o pass

\* Database::SetCredentials
SetCredentials(d, user, pass) ==
    [d EXCEPT !.authUser = user, !.authPassHash = HashPassword(pass)]

\* Database::SetCredentialsHash
SetCredentialsHash(d, user, hash) ==
    [d EXCEPT !.authUser = user, !.authPassHash = hash]

\* Database::HasCredentials
HasCredentials(d) == d.authUser # ""

(* --------------------------- ExecuteQuery --------------------------- *)

\* h.rfind(c)
RFindChar(h, c) ==
    LET ps == {p \in 0..(Len(h) - 1) : h[p + 1] = c}
    IN  IF ps = {} THEN NPOS ELSE Max(ps)

kwCREATE == << "C","R","E","A","T","E" >>
kwTABLE == << "T","A","B","L","E" >>
kwINSERT == << "I","N","S","E","R","T" >>
kwSELECT == << "S","E","L","E","C","T" >>
kwWHERE == << "W","H","E","R","E" >>

\* the value of a SELECT predicate from its token: [ok, val]
WhereValue(tok) ==
    IF Head(tok) = "\""
    THEN [ok |-> TRUE,
          val |-> JStr(IF Len(tok) < 2 THEN << >> ELSE Substr(tok, 1, Len(tok) - 2))]
    ELSE JsonParse(tok)

\* The part of ExecuteQuery that reads the statement only: q = [text, json],
\* json being the object that json::parse makes of the text between the first
\* '{' and the last '}' of an INSERT.  The result names the command, the
\* error the statement's shape raises (if any) and what the statement asks.
ParseStatement(q) ==
    LET tokens == Tokenize(q.text)
        base == [cmd |-> "none", err |-> "ok", table |-> << >>, cols |-> << >>,
                 values |-> EmptyMap, shape |-> "none", column |-> << >>,
                 value |-> [ok |-> TRUE, val |-> JNull]]
    IN  IF tokens = << >> THEN [base EXCEPT !.err = "EmptyQuery"]
        ELSE IF tokens[1] = kwCREATE
        THEN LET parenStart == FindChar(q.text, "(", 0)
                 parenEnd == RFindChar(q.text, ")")
             IN  IF Len(tokens) < 3 \/ tokens[2] # kwTABLE
                 THEN [base EXCEPT !.cmd = "CREATE", !.err = "InvalidSyntax"]
                 ELSE IF parenStart = NPOS \/ parenEnd = NPOS \/ parenEnd < parenStart
                 THEN [base EXCEPT !.cmd = "CREATE", !.err = "InvalidSyntax"]
                 ELSE LET colsText == Substr(q.text, parenStart + 1,
                                             parenEnd - parenStart - 1)
                          pieces == SplitComma(colsText)
                      IN  [base EXCEPT !.cmd = "CREATE", !.table = tokens[3],
                               !.cols = ParseColumns(pieces)]
        ELSE IF tokens[1] = kwINSERT
        THEN IF Len(tokens) < 2
             THEN [base EXCEPT !.cmd = "INSERT", !.err = "InvalidSyntax"]
             ELSE IF FindChar(q.text, "{", 0) = NPOS \/ RFindChar(q.text, "}") = NPOS
             THEN [base EXCEPT !.cmd = "INSERT", !.err = "InvalidSyntax"]
             ELSE [base EXCEPT !.cmd = "INSERT", !.table = tokens[2],
                               !.values = q.json]
        ELSE IF tokens[1] = kwSELECT
        THEN IF Len(tokens) < 2
             THEN [base EXCEPT !.cmd = "SELECT", !.err = "InvalidSyntax"]
             ELSE IF Len(tokens) = 2
             THEN [base EXCEPT !.cmd = "SELECT", !.table = tokens[2], !.shape = "all"]
             ELSE IF Len(tokens) >= 6 /\ tokens[3] = kwWHERE /\ tokens[5] = << "=" >>
             THEN [base EXCEPT !.cmd = "SELECT", !.table = tokens[2],
                               !.shape = "where", !.column = tokens[4],
                               !.value = WhereValue(tokens[6])]
             ELSE [base EXCEPT !.cmd = "SELECT", !.table = tokens[2],
                               !.shape = "bad"]
        ELSE [base EXCEPT !.cmd = "unknown", !.err = "UnknownCommand"]

\* The CREATE branch on the database: [err, db, rows]
ExecCreate(d, p) ==
    IF p.table \in DOMAIN d.tables
    THEN [err |-> "DuplicateTable", db |-> d, rows |-> << >>]
    ELSE With(AddColumns(NewTable, p.cols),
              LAMBDA r :
                 [err |-> r.err,
                  db |-> [d EXCEPT !.tables = Put(CreateTable(@, p.table), p.table, r.table)],
                  rows |-> << >>])

\* The INSERT branch on the database
ExecInsert(d, p) ==
    IF p.table \notin DOMAIN d.tables
    THEN [err |-> "TableNotFound", db |-> d, rows |-> << >>]
    ELSE With(Insert(d.tables[p.table], p.values),
              LAMBDA r :
                 [err |-> r.err,
                  db |-> [d EXCEPT !.tables = Put(@, p.table, r.table)],
                  rows |-> << >>])

\* The SELECT branch on the database
ExecSelect(d, p) ==
    IF p.table \notin DOMAIN d.tables
    THEN [err |-> "TableNotFound", db |-> d, rows |-> << >>]
    ELSE IF p.shape = "all"
    THEN [err |-> "ok", db |-> d, rows |-> d.tables[p.table].rows]
    ELSE IF p.shape = "where"
    THEN IF ~p.value.ok
         THEN [err |-> "ParseError", db |-> d, rows |-> << >>]
         ELSE With(Select(d.tables[p.table], p.column, p.value.val),
                   LAMBDA r : [err |-> r.err, db |-> d, rows |-> r.rows])
    ELSE [err |-> "InvalidSyntax", db |-> d, rows |-> << >>]

\* ExecuteQuery(db, query) on the parsed statement: [err, db, rows], db being
\* the database as the call leaves it, whether it returns or throws
ExecuteQuery(d, p) ==
    IF p.err # "ok" THEN [err |-> p.err, db |-> d, rows |-> << >>]
    ELSE IF p.cmd = "CREATE" THEN ExecCreate(d, p)
    ELSE IF p.cmd = "INSERT" THEN ExecInsert(d, p)
    ELSE ExecSelect(d, p)

(* ----------------------------- snapshots ---------------------------- *)

\* the table names of the model and the reserved key
T == << "t" >>

META == << "_","_","m","e","t","a" >>

\* the order in which json::items() walks the top-level keys (a std::map:
\* byte order, '_' before 't')
KeyOrder == << META, T >>

\* static_cast<int>(attr.type)
TypeIndex(ty) == (CHOOSE i \in 1..Len(DTypes) : DTypes[i] = ty) - 1

\* static_cast<DType>(n)
TypeOfIndex(n) == DTypes[n + 1]

\* a JSON value that is null: it contains no key
NullJson == [keys |-> {}, schema |-> << >>, rows |-> << >>,
             auth |-> [user |-> "", pass |-> ""]]

\* the descriptor Serialize writes for one column: only the flags that are
\* true, and the default when there is one
AttrJson(attr) ==
    [name |-> attr.name,
     type |-> TypeIndex(attr.type),
     flags |-> [k \in ( (IF attr.isPrimaryKey THEN {"primary"} ELSE {})
                        \cup (IF attr.isAutoIncrement THEN {"auto"} ELSE {})
                        \cup (IF attr.isNotNull THEN {"not_null"} ELSE {}) ) |-> TRUE],
     hasDefault |-> attr.hasDefault,
     default |-> IF attr.hasDefault THEN attr.defaultValue ELSE JNull]

\* jr[k] = v.data for every field of a row
RowJson(row) == [k \in DOMAIN row |-> row[k].data]

\* jt of one table: "schema" and "rows" exist only when something was pushed
TableJson(table) ==
    [keys |-> (IF Len(table.schema) > 0 THEN {"schema"} ELSE {})
              \cup (IF Len(table.rows) > 0 THEN {"rows"} ELSE {}),
     schema |-> [i \in 1..Len(table.schema) |-> AttrJson(table.schema[i])],
     rows |-> [i \in 1..Len(table.rows) |-> RowJson(table.rows[i])],
     auth |-> [user |-> "", pass |-> ""]]

\* Serialize(db): one entry per table, then the credentials under
\* j["__meta"]["auth"]
Serialize(d) ==
    LET j == [n \in DOMAIN d.tables |-> TableJson(d.tables[n])]
        m == IF META \in DOMAIN j THEN j[META] ELSE NullJson
    IN  IF HasCredentials(d)
        THEN Put(j, META, [m EXCEPT !.keys = @ \cup {"auth"},
                                    !.auth = [user |-> d.authUser,
                                              pass |-> d.authPassHash]])
        ELSE j

\* the Attribute Deserialize builds from one descriptor
AttrOfJson(aj) ==
    [name |-> aj.name,
     type |-> TypeOfIndex(aj.type),
     isPrimaryKey |-> IF "primary" \in DOMAIN aj.flags THEN aj.flags["primary"] ELSE FALSE,
     isAutoIncrement |-> IF "auto" \in DOMAIN aj.flags THEN aj.flags["auto"] ELSE FALSE,
     isNotNull |-> IF "not_null" \in DOMAIN aj.flags THEN aj.flags["not_null"] ELSE FALSE,
     hasDefault |-> aj.hasDefault,
     defaultValue |-> IF aj.hasDefault THEN aj.default ELSE JNull]

\* the schema loop of Deserialize: push each column, start its counter at 1
RECURSIVE LoadSchema(_, _)
LoadSchema(table, schema) ==
    IF schema = << >> THEN table
    ELSE With(AttrOfJson(Head(schema)),
              LAMBDA a :
                 With([table EXCEPT
                         !.schema = Append(@, a),
                         !.autoIncCounters =
                             IF a.isAutoIncrement THEN Put(@, a.name, 1) ELSE @],
                      LAMBDA t1 : LoadSchema(t1, Tail(schema))))

\* ReplayRows with each row built as Insert builds it and pushed without the
\* primary-key scan
RECURSIVE ReplayRowsUnchecked(_, _)
ReplayRowsUnchecked(table, rows) ==
    IF rows = << >> THEN [err |-> "ok", table |-> table]
    ELSE With(BuildRow([row |-> EmptyMap, counters |-> table.autoIncCounters,
                        err |-> "ok"], table.schema, Head(rows)),
              LAMBDA b :
                 IF b.err # "ok" THEN [err |-> b.err, table |-> table]
                 ELSE ReplayRowsUnchecked(
                          [table EXCEPT !.rows = Append(@, b.row),
                                        !.autoIncCounters = b.counters],
                          Tail(rows)))

\* the row loop of Deserialize: Insert(table, row) for each row, up to the
\* first throw: [err, table]
RECURSIVE ReplayRows(_, _)
ReplayRows(table, rows) ==
    IF rows = << >> THEN [err |-> "ok", table |-> table]
    ELSE With(Insert(table, Head(rows)),
              LAMBDA r : IF r.err # "ok" THEN r ELSE ReplayRows(r.table, Tail(rows)))

\* maxv of one auto-increment column: it starts at 0 and takes every larger
\* number found in the column
MaxStored(table, n) ==
    LET vs == {table.rows[r][n].data.i : r \in
                  {r \in 1..Len(table.rows) :
                      n \in DOMAIN table.rows[r] /\ table.rows[r][n].data.t = "int"}}
    IN  Max(vs \cup {0})

\* the counter adjustment after the rows: maxv + 1 for every auto-increment column
AdjustCounters(table) ==
    LET autos == {table.schema[i].name : i \in
                     {i \in 1..Len(table.schema) : table.schema[i].isAutoIncrement}}
        old == table.autoIncCounters
    IN  [table EXCEPT !.autoIncCounters =
            [n \in (DOMAIN old) \cup autos |->
                IF n \in autos THEN MaxStored(table, n) + 1 ELSE old[n]]]

\* one pass of Deserialize's loop over the top-level keys: [err, db]
LoadTable(d, tableName, tableData) ==
    With(IF "schema" \in tableData.keys
         THEN LoadSchema(NewTable, tableData.schema) ELSE NewTable,
         LAMBDA t0 :
            IF "rows" \notin tableData.keys
            THEN [err |-> "ok",
                  db |-> [d EXCEPT !.tables = Put(CreateTable(@, tableName), tableName, t0)]]
            ELSE With(ReplayRows(t0, tableData.rows),
                      LAMBDA r :
                         [err |-> r.err,
                          db |-> [d EXCEPT !.tables =
                                     Put(CreateTable(@, tableName), tableName,
                                         IF r.err # "ok" THEN r.table
                                         ELSE AdjustCounters(r.table))]]))

\* the loop over the top-level keys, in KeyOrder from position i on; "__meta"
\* is skipped, and a throw ends the loop with the database as it is
RECURSIVE LoadTables(_, _, _)
LoadTables(d, j, i) ==
    IF i > Len(KeyOrder) THEN [err |-> "ok", db |-> d]
    ELSE IF KeyOrder[i] \notin DOMAIN j \/ KeyOrder[i] = META
    THEN LoadTables(d, j, i + 1)
    ELSE With(j[KeyOrder[i]],
              LAMBDA tableData :
                 With(LoadTable(d, KeyOrder[i], tableData),
                      LAMBDA r : IF r.err # "ok" THEN r ELSE LoadTables(r.db, j, i + 1)))

\* Deserialize(db, j): [err, db], db being the database as the call leaves it
Deserialize(d, j) ==
    With(IF META \in DOMAIN j /\ "auth" \in j[META].keys
         THEN SetCredentialsHash(d, j[META].auth.user, j[META].auth.pass)
         ELSE d,
         LAMBDA d1 : LoadTables(d1, j, 1))

(* ------------------------ the inputs of the model ------------------- *)

cId == << "i","d" >>

cName == << "n","a","m","e" >>

cK == << "k" >>

cN == << "n" >>

cZz == << "z","z" >>

\* The statements given to ExecuteQuery.  json is the object of an INSERT.
Statements ==
    <<
      \* 1: CREATE TABLE t (id INT AUTO_INCREMENT PRIMARY KEY, name TEXT NOT NULL)
      [text |-> << "C","R","E","A","T","E"," ","T","A","B","L","E"," ","t"," ","(","i","d"," ","I","N","T"," ","A","U","T","O","_","I","N","C","R","E","M","E","N","T"," ","P","R","I","M","A","R","Y"," ","K","E","Y",","," ","n","a","m","e"," ","T","E","X","T"," ","N","O","T"," ","N","U","L","L",")" >>,
       json |-> EmptyMap],
      \* 2: CREATE TABLE t (id INT AUTO_INCREMENT, k INT PRIMARY KEY NOT NULL, n INT AUTO_INCREMENT)
      [text |-> << "C","R","E","A","T","E"," ","T","A","B","L","E"," ","t"," ","(","i","d"," ","I","N","T"," ","A","U","T","O","_","I","N","C","R","E","M","E","N","T",","," ","k"," ","I","N","T"," ","P","R","I","M","A","R","Y"," ","K","E","Y"," ","N","O","T"," ","N","U","L","L",","," ","n"," ","I","N","T"," ","A","U","T","O","_","I","N","C","R","E","M","E","N","T",")" >>,
       json |-> EmptyMap],
      \* 3: CREATE TABLE t (id INT NOT NULL, x BOGUS)
      [text |-> << "C","R","E","A","T","E"," ","T","A","B","L","E"," ","t"," ","(","i","d"," ","I","N","T"," ","N","O","T"," ","N","U","L","L",","," ","x"," ","B","O","G","U","S",")" >>,
       json |-> EmptyMap],
      \* 4: CREATE TABLE t (id INT NOT NULL, solo)
      [text |-> << "C","R","E","A","T","E"," ","T","A","B","L","E"," ","t"," ","(","i","d"," ","I","N","T"," ","N","O","T"," ","N","U","L","L",","," ","s","o","l","o",")" >>,
       json |-> EmptyMap],
      \* 5: CREATE TABLE t (id INT NOT NULL, d TEXT DEFAULT "x)
      [text |-> << "C","R","E","A","T","E"," ","T","A","B","L","E"," ","t"," ","(","i","d"," ","I","N","T"," ","N","O","T"," ","N","U","L","L",","," ","d"," ","T","E","X","T"," ","D","E","F","A","U","L","T"," ","\"","x",")" >>,
       json |-> EmptyMap],
      \* 6: CREATE TABLE __meta (k INT PRIMARY KEY, note TEXT DEFAULT "x", opt TEXT)
      [text |-> << "C","R","E","A","T","E"," ","T","A","B","L","E"," ","_","_","m","e","t","a"," ","(","k"," ","I","N","T"," ","P","R","I","M","A","R","Y"," ","K","E","Y",","," ","n","o","t","e"," ","T","E","X","T"," ","D","E","F","A","U","L","T"," ","\"","x","\"",","," ","o","p","t"," ","T","E","X","T",")" >>,
       json |-> EmptyMap],
      \* 7: CREATE t (id INT)
      [text |-> << "C","R","E","A","T","E"," ","t"," ","(","i","d"," ","I","N","T",")" >>,
       json |-> EmptyMap],
      \* 8: INSERT t {"name":"a"}
      [text |-> << "I","N","S","E","R","T"," ","t"," ","{","\"","n","a","m","e","\"",":","\"","a","\"","}" >>,
       json |-> (cName :> JStr(<< "a" >>))],
      \* 9: INSERT t {"id":1,"name":"a b"}
      [text |-> << "I","N","S","E","R","T"," ","t"," ","{","\"","i","d","\"",":","1",",","\"","n","a","m","e","\"",":","\"","a"," ","b","\"","}" >>,
       json |-> (cId :> JInt(1)) @@ (cName :> JStr(<< "a"," ","b" >>))],
      \* 10: INSERT t {}
      [text |-> << "I","N","S","E","R","T"," ","t"," ","{","}" >>,
       json |-> EmptyMap],
      \* 11: INSERT t {"k":1}
      [text |-> << "I","N","S","E","R","T"," ","t"," ","{","\"","k","\"",":","1","}" >>,
       json |-> (cK :> JInt(1))],
      \* 12: INSERT t {"k":2,"n":1,"zz":1}
      [text |-> << "I","N","S","E","R","T"," ","t"," ","{","\"","k","\"",":","2",",","\"","n","\"",":","1",",","\"","z","z","\"",":","1","}" >>,
       json |-> (cK :> JInt(2)) @@ (cN :> JInt(1)) @@ (cZz :> JInt(1))],
      \* 13: INSERT u {"k":1}
      [text |-> << "I","N","S","E","R","T"," ","u"," ","{","\"","k","\"",":","1","}" >>,
       json |-> (cK :> JInt(1))],
      \* 14: SELECT t
      [text |-> << "S","E","L","E","C","T"," ","t" >>,
       json |-> EmptyMap],
      \* 15: SELECT t WHERE id = 1
      [text |-> << "S","E","L","E","C","T"," ","t"," ","W","H","E","R","E"," ","i","d"," ","="," ","1" >>,
       json |-> EmptyMap],
      \* 16: SELECT t WHERE name = "a"
      [text |-> << "S","E","L","E","C","T"," ","t"," ","W","H","E","R","E"," ","n","a","m","e"," ","="," ","\"","a","\"" >>,
       json |-> EmptyMap],
      \* 17: SELECT t WHERE k = 2
      [text |-> << "S","E","L","E","C","T"," ","t"," ","W","H","E","R","E"," ","k"," ","="," ","2" >>,
       json |-> EmptyMap],
      \* 18: SELECT __meta
      [text |-> << "S","E","L","E","C","T"," ","_","_","m","e","t","a" >>,
       json |-> EmptyMap],
      \* 19: SELECT t WHERE name = "a b"
      [text |-> << "S","E","L","E","C","T"," ","t"," ","W","H","E","R","E"," ","n","a","m","e"," ","="," ","\"","a"," ","b","\"" >>,
       json |-> EmptyMap],
      \* 20: SELECT t WHERE id 1
      [text |-> << "S","E","L","E","C","T"," ","t"," ","W","H","E","R","E"," ","i","d"," ","1" >>,
       json |-> EmptyMap],
      \* 21: DROP t
      [text |-> << "D","R","O","P"," ","t" >>,
       json |-> EmptyMap],
      \* 22: INSERT __meta {"k":1,"zz":1}
      [text |-> << "I","N","S","E","R","T"," ","_","_","m","e","t","a"," ","{","\"","k","\"",":","1",",","\"","z","z","\"",":","1","}" >>,
       json |-> (cK :> JInt(1)) @@ (cZz :> JInt(1))],
      \* 23: SELECT t WHERE id = 1 extra
      [text |-> << "S","E","L","E","C","T"," ","t"," ","W","H","E","R","E"," ","i","d"," ","="," ","1"," ","e","x","t","r","a" >>,
       json |-> EmptyMap],
      \* 24: (two spaces)
      [text |-> << " "," " >>,
       json |-> EmptyMap],
      \* 25: SELECT t WHERE
      [text |-> << "S","E","L","E","C","T"," ","t"," ","W","H","E","R","E" >>,
       json |-> EmptyMap],
      \* 26: select t
      [text |-> << "s","e","l","e","c","t"," ","t" >>,
       json |-> EmptyMap]
    >>

\* what ExecuteQuery reads from the first n statements
RECURSIVE ParsedUpTo(_)
ParsedUpTo(n) ==
    IF n = 0 THEN << >>
    ELSE Append(ParsedUpTo(n - 1), ParseStatement(Statements[n]))

\* what ExecuteQuery reads from each statement
Parsed == ParsedUpTo(Len(Statements))

\* column descriptors of hand-written snapshots
SnapId == [name |-> cId, type |-> 2, flags |-> ("primary" :> TRUE) @@ ("auto" :> TRUE),
           hasDefault |-> FALSE, default |-> JNull]

SnapName == [name |-> cName, type |-> 0, flags |-> ("not_null" :> TRUE),
             hasDefault |-> FALSE, default |-> JNull]

SnapRow(id, name) == (cId :> JInt(id)) @@ (cName :> JStr(name))

SnapTable(schema, rows) ==
    [keys |-> {"schema", "rows"}, schema |-> schema, rows |-> rows,
     auth |-> [user |-> "", pass |-> ""]]

\* The snapshots given to Deserialize besides those Serialize wrote: files
\* written or edited by hand.
Snapshots ==
    <<
      \* 1: well-formed, the largest id is 2
      (T :> SnapTable(<< SnapId, SnapName >>,
                      << SnapRow(2, << "a" >>), SnapRow(1, << "b" >>) >>)),
      \* 2: every stored id is negative
      (T :> SnapTable(<< SnapId, SnapName >>,
                      << SnapRow(-2, << "a" >>), SnapRow(-1, << "b" >>) >>)),
      \* 3: credentials, and two rows with the same primary key
      (META :> [NullJson EXCEPT !.keys = {"auth"},
                                !.auth = [user |-> "admin", pass |-> "hex:pw"]])
      @@ (T :> SnapTable(<< SnapId, SnapName >>,
                         << SnapRow(1, << "a" >>), SnapRow(1, << "b" >>) >>)),
      \* 4: a row lacks the not-null column
      (T :> SnapTable(<< SnapId, SnapName >>,
                      << SnapRow(2, << "a" >>), (cId :> JInt(1)) >>))
    >>

(* --------------------------- the state machine ---------------------- *)

\* the largest number of rows a table holds in the model
MaxRows == 2

\* the largest value an auto-increment counter takes in the model
MaxCounter == 3

VARIABLES
    db,        \* the Database object: tables, authUser, authPassHash
    last,      \* the last call: what it was given, what it raised, the database before it
    assigned   \* history: per table made by CREATE TABLE and per column, the values
               \* stored in that column by INSERTs that omitted it

vars == << db, last, assigned >>

NoCall == [op |-> "none", arg |-> 0, err |-> "ok", pre |-> EmptyDb, rows |-> << >>]

Init ==
    /\ db = EmptyDb
    /\ last = NoCall
    /\ assigned = EmptyMap

\* the model's bounds on a database
WithinBounds(d) ==
    \A n \in DOMAIN d.tables :
        /\ Len(d.tables[n].rows) <= MaxRows
        /\ \A c \in DOMAIN d.tables[n].autoIncCounters :
              d.tables[n].autoIncCounters[c] <= MaxCounter

\* the auto-increment columns of table that values omits
Omitted(table, values) ==
    {table.schema[i].name : i \in
        {i \in 1..Len(table.schema) :
            table.schema[i].isAutoIncrement /\ table.schema[i].name \notin DOMAIN values}}

\* the history after a successful INSERT into a table made by CREATE TABLE
Record(log, table, values, row) ==
    [c \in (DOMAIN log) \cup Omitted(table, values) |->
        IF c \in Omitted(table, values)
        THEN Append(IF c \in DOMAIN log THEN log[c] ELSE << >>, row[c].data)
        ELSE log[c]]

\* ExecuteQuery(db, query) on statement i
Query(i) ==
    \E r \in {ExecuteQuery(db, Parsed[i])} :
        /\ WithinBounds(r.db)
        /\ db' = r.db
        /\ last' = [op |-> Parsed[i].cmd, arg |-> i, err |-> r.err, pre |-> db,
                    rows |-> r.rows]
        /\ assigned' =
              IF Parsed[i].cmd = "CREATE" /\ r.err \notin {"InvalidSyntax", "DuplicateTable"}
              THEN Put(assigned, Parsed[i].table, EmptyMap)
              ELSE IF Parsed[i].cmd = "INSERT" /\ r.err = "ok"
                      /\ Parsed[i].table \in DOMAIN assigned
              THEN Put(assigned, Parsed[i].table,
                       Record(assigned[Parsed[i].table], db.tables[Parsed[i].table],
                              Parsed[i].values,
                              r.db.tables[Parsed[i].table].rows[
                                  Len(r.db.tables[Parsed[i].table].rows)]))
              ELSE assigned

\* Database::SetCredentials
SetCreds(user, pass) ==
    /\ db' = SetCredentials(db, user, pass)
    /\ last' = [op |-> "creds", arg |-> 0, err |-> "ok", pre |-> db, rows |-> << >>]
    /\ UNCHANGED assigned

\* Deserialize(db, j) on a snapshot written by hand
Load(k) ==
    \E r \in {Deserialize(db, Snapshots[k])} :
        /\ WithinBounds(r.db)
        /\ db' = r.db
        /\ last' = [op |-> "load", arg |-> k, err |-> r.err, pre |-> db, rows |-> << >>]
        /\ assigned' = [n \in {n \in DOMAIN assigned :
                                  n \in DOMAIN r.db.tables
                                  /\ n \in DOMAIN db.tables
                                  /\ r.db.tables[n] = db.tables[n]
                                  /\ (n \notin DOMAIN Snapshots[k] \/ n = META)}
                           |-> assigned[n]]

\* the process ends and starts again: SaveToFile writes Serialize(db), and
\* LoadFromFile gives it to Deserialize on a new Database
Restart ==
    \E j \in {Serialize(db)} :
      \E r \in {Deserialize(EmptyDb, j)} :
        /\ db' = r.db
        /\ last' = [op |-> "restart", arg |-> 0, err |-> r.err, pre |-> db, rows |-> << >>]
        /\ assigned' = EmptyMap

Next ==
    \/ \E i \in 1..Len(Statements) : Query(i)
    \/ SetCreds("admin", "pw")
    \/ \E k \in 1..Len(Snapshots) : Load(k)
    \/ Restart

Spec == Init /\ [][Next]_vars

(* ------------- Insert on its own, for every combination of flags ---------- *)

\* an INT column with the given flags; its default, when it has one, is 7
Column(n, auto, def, notNull) ==
    [Attribute(n, "INT") EXCEPT !.isAutoIncrement = auto,
                                !.hasDefault = def,
                                !.defaultValue = IF def THEN JInt(7) ELSE JNull,
                                !.isNotNull = notNull]

\* the objects given to Insert
InsertInputs ==
    << EmptyMap,
       (cK :> JInt(1)),
       (cN :> JInt(2)),
       (cK :> JInt(2)) @@ (cN :> JInt(1)) >>

\* a database whose one table has the columns k and n, each with any flags
InitInsert ==
    /\ \E a1 \in BOOLEAN, d1 \in BOOLEAN, n1 \in BOOLEAN,
          a2 \in BOOLEAN, d2 \in BOOLEAN, n2 \in BOOLEAN :
          db = [EmptyDb EXCEPT !.tables =
                   (T :> AddColumn(AddColumn(NewTable, Column(cK, a1, d1, n1)),
                                   Column(cN, a2, d2, n2)))]
    /\ last = NoCall
    /\ assigned = EmptyMap

\* Insert(table, values) on input i
InsertCall(i) ==
    \E r \in {Insert(db.tables[T], InsertInputs[i])} :
        /\ WithinBounds([db EXCEPT !.tables = (T :> r.table)])
        /\ db' = [db EXCEPT !.tables = (T :> r.table)]
        /\ last' = [op |-> "insert", arg |-> i, err |-> r.err, pre |-> db, rows |-> << >>]
        /\ UNCHANGED assigned

NextInsert == \E i \in 1..Len(InsertInputs) : InsertCall(i)

SpecInsert == InitInsert /\ [][NextInsert]_vars

(* ------------------------------- claims ----------------------------- *)

\* the columns Insert can store nothing in: omitted by values, not
\* auto-increment, without default, and not-null
Unfillable(schema, values) ==
    {i \in 1..Len(schema) :
        /\ schema[i].name \notin DOMAIN values
        /\ ~schema[i].isAutoIncrement
        /\ ~schema[i].hasDefault
        /\ schema[i].isNotNull}

\* C1: Insert stores, for each column in schema order, the supplied value
\* verbatim; otherwise, in an auto-increment column, the column's current
\* counter, which is then one larger; otherwise the column's default;
\* otherwise it fails with MissingRequiredColumn if the column is not-null;
\* otherwise it stores null.  For every combination of the three flags.
InsertPriority ==
    last.op = "insert" =>
        LET pre    == last.pre.tables[T]
            post   == db.tables[T]
            values == InsertInputs[last.arg]
            schema == pre.schema
        IN  /\ Unfillable(schema, values) # {} <=> last.err = "MissingRequiredColumn"
            /\ Unfillable(schema, values) = {} <=> last.err = "ok"
            /\ last.err = "ok" =>
                  /\ Len(post.rows) = Len(pre.rows) + 1
                  /\ SubSeq(post.rows, 1, Len(pre.rows)) = pre.rows
                  /\ DOMAIN post.rows[Len(post.rows)]
                        = {schema[i].name : i \in 1..Len(schema)}
                  /\ \A i \in 1..Len(schema) :
                        LET a == schema[i]
                            x == post.rows[Len(post.rows)][a.name]
                        IN  /\ x.type = a.type
                            /\ a.name \in DOMAIN values => x.data = values[a.name]
                            /\ a.name \notin DOMAIN values /\ a.isAutoIncrement =>
                                  /\ x.data = JInt(CounterOf(pre.autoIncCounters, a.name))
                                  /\ post.autoIncCounters[a.name]
                                        = CounterOf(pre.autoIncCounters, a.name) + 1
                            /\ a.name \notin DOMAIN values /\ ~a.isAutoIncrement
                                  /\ a.hasDefault => x.data = a.defaultValue
                            /\ a.name \notin DOMAIN values /\ ~a.isAutoIncrement
                                  /\ ~a.hasDefault /\ ~a.isNotNull => x.data = JNull
                            /\ a.name \in DOMAIN values /\ a.isAutoIncrement =>
                                  post.autoIncCounters[a.name] = pre.autoIncCounters[a.name]

\* an insert that omits both columns succeeded: k, with all three flags, took
\* the counter that had reached 2, and n, not-null with a default, took the default
InsertPriorityWitness ==
    /\ last.op = "insert"
    /\ last.err = "ok"
    /\ InsertInputs[last.arg] = EmptyMap
    /\ LET a == last.pre.tables[T].schema[1]
           b == last.pre.tables[T].schema[2]
           row == db.tables[T].rows[Len(db.tables[T].rows)]
       IN  /\ a.isAutoIncrement /\ a.hasDefault /\ a.isNotNull
           /\ ~b.isAutoIncrement /\ b.hasDefault /\ b.isNotNull
           /\ row[a.name].data = JInt(2)
           /\ row[b.name].data = JInt(7)

\* the value Insert's candidate row holds in column a
Candidate(table, values, a) ==
    IF a.name \in DOMAIN values THEN values[a.name]
    ELSE IF a.isAutoIncrement THEN JInt(CounterOf(table.autoIncCounters, a.name))
    ELSE IF a.hasDefault THEN a.defaultValue
    ELSE JNull

\* the last call was an INSERT statement that reached Insert
InsertReached ==
    /\ last.op = "INSERT"
    /\ Parsed[last.arg].err = "ok"
    /\ Parsed[last.arg].table \in DOMAIN last.pre.tables

\* C2: an INSERT whose candidate row is built and holds, in a primary-key
\* column, a value equal to that of an existing row fails with
\* DuplicatePrimaryKey, and the table's rows are those before the statement.
DuplicateKeyRejected ==
    InsertReached =>
        LET tn     == Parsed[last.arg].table
            pre    == last.pre.tables[tn]
            values == Statements[last.arg].json
        IN  ( /\ Unfillable(pre.schema, values) = {}
              /\ \E i \in 1..Len(pre.schema) :
                    /\ pre.schema[i].isPrimaryKey
                    /\ \E r \in 1..Len(pre.rows) :
                          pre.rows[r][pre.schema[i].name].data
                              = Candidate(pre, values, pre.schema[i]) )
            => /\ last.err = "DuplicatePrimaryKey"
               /\ db.tables[tn].rows = pre.rows

\* an INSERT that omits the auto-increment primary key was refused because the
\* counter's value is the key of the one stored row
DuplicateKeyRejectedWitness ==
    /\ InsertReached
    /\ last.err = "DuplicatePrimaryKey"
    /\ LET tn  == Parsed[last.arg].table
           pre == last.pre.tables[tn]
       IN  /\ Len(pre.rows) = 1
           /\ db.tables[tn].rows = pre.rows
           /\ pre.schema[1].isPrimaryKey /\ pre.schema[1].isAutoIncrement
           /\ pre.schema[1].name \notin DOMAIN Statements[last.arg].json
           /\ pre.rows[1][pre.schema[1].name].data
                 = JInt(pre.autoIncCounters[pre.schema[1].name])

\* C3: an Insert that fails (MissingRequiredColumn or DuplicatePrimaryKey)
\* leaves the table as it was: the same rows and the same auto-increment
\* counters.
FailedInsertLeavesNoTrace ==
    ( /\ InsertReached
      /\ last.err \in {"MissingRequiredColumn", "DuplicatePrimaryKey"} )
    => /\ db.tables[Parsed[last.arg].table].rows
             = last.pre.tables[Parsed[last.arg].table].rows
       /\ db.tables[Parsed[last.arg].table].autoIncCounters
             = last.pre.tables[Parsed[last.arg].table].autoIncCounters

\* C4: in a table made by CREATE TABLE, the n-th row stored by an INSERT
\* that omits auto-increment column c holds n in c, for each such column and
\* table, whatever other INSERT statements come in between.
AutoValuesSequential ==
    \A tn \in DOMAIN assigned :
        \A c \in DOMAIN assigned[tn] :
            \A n \in 1..Len(assigned[tn][c]) : assigned[tn][c][n] = JInt(n)

\* C5: a CREATE TABLE that fails while its columns are parsed leaves the
\* database as it was before the statement, with no table of that name.
FailedCreateLeavesNoTable ==
    ( /\ last.op = "CREATE"
      /\ last.err \in {"UnknownType", "InvalidColumnDefinition", "UnterminatedDefault"} )
    => /\ db = last.pre
       /\ Parsed[last.arg].table \notin DOMAIN db.tables

\* what each SELECT statement of Statements asks, read from its text by hand
Asked ==
    (14 :> [table |-> T, where |-> FALSE, column |-> << >>, value |-> JNull])
    @@ (15 :> [table |-> T, where |-> TRUE, column |-> cId, value |-> JInt(1)])
    @@ (16 :> [table |-> T, where |-> TRUE, column |-> cName, value |-> JStr(<< "a" >>)])
    @@ (17 :> [table |-> T, where |-> TRUE, column |-> cK, value |-> JInt(2)])
    @@ (18 :> [table |-> META, where |-> FALSE, column |-> << >>, value |-> JNull])
    @@ (19 :> [table |-> T, where |-> TRUE, column |-> cName,
               value |-> JStr(<< "a", " ", "b" >>)])

\* the rows of a table whose value in column equals value, in the table's order
Matching(table, column, value) ==
    LET Keep(row) == row[column].data = value
    IN  SelectSeq(table.rows, Keep)

\* C6: SELECT t WHERE col = v returns exactly the rows of t whose value in
\* col equals v, in insertion order, and SELECT t returns all rows of t in
\* insertion order.
SelectReturnsMatchingRows ==
    ( /\ last.op = "SELECT"
      /\ last.arg \in DOMAIN Asked
      /\ Asked[last.arg].table \in DOMAIN last.pre.tables
      /\ Asked[last.arg].where =>
            \E i \in 1..Len(last.pre.tables[Asked[last.arg].table].schema) :
                last.pre.tables[Asked[last.arg].table].schema[i].name
                    = Asked[last.arg].column )
    => /\ last.err = "ok"
       /\ last.rows =
             IF Asked[last.arg].where
             THEN Matching(last.pre.tables[Asked[last.arg].table],
                           Asked[last.arg].column, Asked[last.arg].value)
             ELSE last.pre.tables[Asked[last.arg].table].rows

\* the largest integer stored in column c of a table, 0 when there is none
LargestStored(table, c) ==
    LET vs == {table.rows[r][c].data.i : r \in
                  {r \in 1..Len(table.rows) :
                      c \in DOMAIN table.rows[r] /\ table.rows[r][c].data.t = "int"}}
    IN  IF vs = {} THEN 0 ELSE Max(vs)

\* the auto-increment columns of a table
AutoColumns(table) ==
    {table.schema[i].name : i \in
        {i \in 1..Len(table.schema) : table.schema[i].isAutoIncrement}}

\* C7: Serialize followed by Deserialize into an empty database gives back
\* the same table names, whatever they are, and for each table the same
\* columns with the same flags and defaults, the same rows in the same order,
\* the same credentials, and counters one above the largest stored value.
RoundTripLossless ==
    last.op = "restart" =>
        /\ last.err = "ok"
        /\ DOMAIN db.tables = DOMAIN last.pre.tables
        /\ \A n \in (DOMAIN db.tables) \cap (DOMAIN last.pre.tables) :
              /\ db.tables[n].schema = last.pre.tables[n].schema
              /\ db.tables[n].rows = last.pre.tables[n].rows
              /\ \A c \in AutoColumns(db.tables[n]) :
                    db.tables[n].autoIncCounters[c] = LargestStored(db.tables[n], c) + 1
        /\ db.authUser = last.pre.authUser
        /\ db.authPassHash = last.pre.authPassHash

\* the snapshot the last Deserialize was given
Given ==
    IF last.op = "load" THEN Snapshots[last.arg] ELSE Serialize(last.pre)

\* C8: after Deserialize, in every loaded table that has rows, the counter
\* of each auto-increment column is one above the largest integer stored in
\* it, whether the stored integers are positive, zero or negative.
CounterIsMaxPlusOne ==
    (last.op \in {"load", "restart"} /\ last.err = "ok") =>
        \A n \in ((DOMAIN Given) \ {META}) \cap (DOMAIN db.tables) :
            \A c \in AutoColumns(db.tables[n]) :
                LET vs == {db.tables[n].rows[r][c].data.i : r \in
                              {r \in 1..Len(db.tables[n].rows) :
                                  db.tables[n].rows[r][c].data.t = "int"}}
                IN  vs # {} => db.tables[n].autoIncCounters[c] = Max(vs) + 1

\* the names of a snapshot table's columns that carry flag f
Flagged(tj, f) ==
    {tj.schema[i].name : i \in
        {i \in 1..Len(tj.schema) :
            f \in DOMAIN tj.schema[i].flags /\ tj.schema[i].flags[f]}}

\* two rows of a snapshot table give the same value for a primary-key column
TwoRowsShareKey(tj) ==
    \E c \in Flagged(tj, "primary") :
        \E i \in 1..Len(tj.rows) : \E k \in (i + 1)..Len(tj.rows) :
            /\ c \in DOMAIN tj.rows[i]
            /\ c \in DOMAIN tj.rows[k]
            /\ tj.rows[i][c] = tj.rows[k][c]

\* a row of a snapshot table has no value for a not-null column that has
\* neither a default nor an auto-increment counter
RowLacksRequired(tj) ==
    \E i \in 1..Len(tj.schema) :
        /\ tj.schema[i].name \in Flagged(tj, "not_null") \ Flagged(tj, "auto")
        /\ ~tj.schema[i].hasDefault
        /\ \E r \in 1..Len(tj.rows) : tj.schema[i].name \notin DOMAIN tj.rows[r]

\* C9: Deserialize replays the rows through Insert: loading a snapshot in
\* which two rows of a table share a primary-key value fails with
\* DuplicatePrimaryKey, loading one in which a row lacks a required column
\* fails with MissingRequiredColumn, and no table of the database holds two
\* rows with the same primary-key value afterwards.
LoadReappliesConstraints ==
    last.op \in {"load", "restart"} =>
        LET tabs == (DOMAIN Given) \ {META}
        IN  /\ ( /\ \E n \in tabs : TwoRowsShareKey(Given[n])
                 /\ \A n \in tabs : ~RowLacksRequired(Given[n]) )
               => last.err = "DuplicatePrimaryKey"
            /\ ( /\ \E n \in tabs : RowLacksRequired(Given[n])
                 /\ \A n \in tabs : ~TwoRowsShareKey(Given[n]) )
               => last.err = "MissingRequiredColumn"
            /\ \A n \in DOMAIN db.tables :
                  \A a \in 1..Len(db.tables[n].schema) :
                      db.tables[n].schema[a].isPrimaryKey =>
                          \A i \in 1..Len(db.tables[n].rows) :
                              \A k \in (i + 1)..Len(db.tables[n].rows) :
                                  db.tables[n].rows[i][db.tables[n].schema[a].name].data
                                    # db.tables[n].rows[k][db.tables[n].schema[a].name].data

\* a snapshot with two rows of the same primary key was refused, and the
\* second of them is not in the table
LoadReappliesConstraintsWitness ==
    /\ last.op = "load"
    /\ TwoRowsShareKey(Snapshots[last.arg][T])
    /\ last.err = "DuplicatePrimaryKey"
    /\ T \in DOMAIN db.tables
    /\ Len(db.tables[T].rows) < Len(Snapshots[last.arg][T].rows)

\* C10: a Deserialize that raises an error leaves the database equal to its
\* state before the load: no table, row or credentials of the snapshot.
FailedLoadLeavesDatabase ==
    (last.op = "load" /\ last.err # "ok") => db = last.pre

\* C11: creating a table whose name exists fails with DuplicateTable and the
\* existing table keeps its schema, rows and counters, for the CREATE TABLE
\* statement and for Database::CreateTable as Deserialize calls it.
CreateNeverReplaces ==
    /\ ( /\ last.op = "CREATE"
         /\ Parsed[last.arg].err = "ok"
         /\ Parsed[last.arg].table \in DOMAIN last.pre.tables )
       => /\ last.err = "DuplicateTable"
          /\ db = last.pre
    /\ last.op = "load" =>
          \A n \in ((DOMAIN Snapshots[last.arg]) \ {META}) \cap (DOMAIN last.pre.tables) :
              /\ last.err = "DuplicateTable"
              /\ db.tables[n] = last.pre.tables[n]

\* the names of a table's columns
ColumnNames(table) == {table.schema[i].name : i \in 1..Len(table.schema)}

\* C12: every stored row of every table has an entry for every column of the
\* table's schema and for no other name; a column without supplied,
\* automatic or default value holds an explicit null.
RowsMatchSchema ==
    /\ \A n \in DOMAIN db.tables :
          \A r \in 1..Len(db.tables[n].rows) :
              DOMAIN db.tables[n].rows[r] = ColumnNames(db.tables[n])
    /\ (InsertReached /\ last.err = "ok") =>
          LET tn  == Parsed[last.arg].table
              row == db.tables[tn].rows[Len(db.tables[tn].rows)]
          IN  \A i \in 1..Len(db.tables[tn].schema) :
                  LET a == db.tables[tn].schema[i]
                  IN  ( /\ a.name \notin DOMAIN Statements[last.arg].json
                        /\ ~a.isAutoIncrement
                        /\ ~a.hasDefault )
                      => /\ a.name \in DOMAIN row
                         /\ row[a.name].data = JNull

\* an INSERT that gave a key outside the schema and omitted an optional column
\* stored a row without the key and with a null in the column
RowsMatchSchemaWitness ==
    /\ InsertReached
    /\ last.err = "ok"
    /\ LET tn  == Parsed[last.arg].table
           row == db.tables[tn].rows[Len(db.tables[tn].rows)]
       IN  /\ cZz \in DOMAIN Statements[last.arg].json
           /\ cZz \notin DOMAIN row
           /\ \E c \in DOMAIN row :
                 c \notin DOMAIN Statements[last.arg].json /\ row[c].data = JNull

(* --------------- ValidateForeignKeys on its own: tables t and u ----------- *)

U == << "u" >>

V == << "v" >>

\* the foreign keys declared on table t: none, one, two, and one whose
\* referenced table v is not a table of the database
FKInputs ==
    << << >>,
       << ForeignKey(cK, U, cK) >>,
       << ForeignKey(cK, U, cK), ForeignKey(cN, U, cN) >>,
       << ForeignKey(cK, U, cK), ForeignKey(cN, V, cN) >>,
       << ForeignKey(cK, V, cK) >> >>

\* a table with the optional INT columns k and n
PlainTable ==
    AddColumn(AddColumn(NewTable, Column(cK, FALSE, FALSE, FALSE)),
              Column(cN, FALSE, FALSE, FALSE))

\* tables t and u without rows, t with one of the foreign-key lists
InitFK ==
    /\ \E f \in 1..Len(FKInputs) :
          db = [EmptyDb EXCEPT !.tables =
                   (T :> [PlainTable EXCEPT !.foreignKeys = FKInputs[f]])
                   @@ (U :> PlainTable)]
    /\ last = NoCall
    /\ assigned = EmptyMap

\* Insert(db.GetTable(tn), values) on input i
FKInsert(tn, i) ==
    \E r \in {Insert(db.tables[tn], InsertInputs[i])} :
        /\ WithinBounds([db EXCEPT !.tables = Put(@, tn, r.table)])
        /\ db' = [db EXCEPT !.tables = Put(@, tn, r.table)]
        /\ last' = [op |-> "fkinsert", arg |-> i, err |-> r.err, pre |-> db,
                    rows |-> << >>, table |-> tn]
        /\ UNCHANGED assigned

\* ValidateForeignKeys(db.GetTable("t"), db)
Validate ==
    \E r \in {ValidateForeignKeys(db.tables[T], db.tables)} :
        /\ last' = [op |-> "validate", arg |-> 0, err |-> r.err, pre |-> db,
                    rows |-> << >>, ret |-> r.ret]
        /\ UNCHANGED << db, assigned >>

NextFK ==
    \/ \E tn \in {T, U} : \E i \in 1..Len(InsertInputs) : FKInsert(tn, i)
    \/ Validate

SpecFK == InitFK /\ [][NextFK]_vars

\* foreign key fk of table is satisfied: every row of table has, in the
\* referenced table, a row whose referenced column holds the row's value
Referenced(fk, table, tables) ==
    /\ fk.refTable \in DOMAIN tables
    /\ \A r \in 1..Len(table.rows) :
          \E q \in 1..Len(tables[fk.refTable].rows) :
              tables[fk.refTable].rows[q][fk.refColumn].data
                  = table.rows[r][fk.column].data

\* C13 as stated: ValidateForeignKeys returns true exactly when every row has
\* a referenced row for every declared foreign key, and false otherwise, and
\* Insert never invokes it.
ForeignKeysTrueOrFalse ==
    /\ last.op = "validate" =>
          /\ last.err = "ok"
          /\ last.ret <=> \A i \in 1..Len(db.tables[T].foreignKeys) :
                              Referenced(db.tables[T].foreignKeys[i], db.tables[T], db.tables)
    /\ last.op = "fkinsert" => last.err = "ok"

\* C13, amended: when every foreign key names a table of the database,
\* ValidateForeignKeys returns true exactly when every row has a referenced
\* row for every foreign key, and false otherwise; it fails with
\* TableNotFound when it comes to a foreign key whose referenced table does
\* not exist, the foreign keys before it being satisfied; the database is
\* unchanged, and Insert never invokes it: an INSERT succeeds whether or not
\* its values have referenced rows.
ForeignKeysValidated ==
    /\ last.op = "validate" =>
          LET fks == db.tables[T].foreignKeys
              missing == {i \in 1..Len(fks) : fks[i].refTable \notin DOMAIN db.tables}
              unmet == {i \in 1..Len(fks) : ~Referenced(fks[i], db.tables[T], db.tables)}
          IN  /\ db = last.pre
              /\ missing = {} =>
                    /\ last.err = "ok"
                    /\ last.ret <=> unmet = {}
              /\ (missing # {} /\ Min(unmet) = Min(missing)) =>
                    last.err = "TableNotFound"
              /\ (missing # {} /\ Min(unmet) < Min(missing)) =>
                    /\ last.err = "ok"
                    /\ ~last.ret
    /\ last.op = "fkinsert" =>
          /\ last.err = "ok"
          /\ Len(db.tables[last.table].rows) = Len(last.pre.tables[last.table].rows) + 1

\* with two rows in t, the first with a referenced row in u and the second
\* without, both inserted without error, ValidateForeignKeys returned false
ForeignKeysValidatedWitness ==
    /\ last.op = "validate"
    /\ last.err = "ok"
    /\ ~last.ret
    /\ Len(db.tables[T].foreignKeys) = 1
    /\ Len(db.tables[T].rows) = 2
    /\ Len(db.tables[U].rows) > 0
    /\ \E q \in 1..Len(db.tables[U].rows) :
          db.tables[U].rows[q][cK].data = db.tables[T].rows[1][cK].data
    /\ \A q \in 1..Len(db.tables[U].rows) :
          db.tables[U].rows[q][cK].data # db.tables[T].rows[2][cK].data

\* C14: Select on a column that is not part of the rows fails with
\* ColumnNotFound when the table has at least one row, and returns no rows
\* without error when the table has none; the table is unchanged either way.
SelectMissingColumn ==
    ( /\ last.op = "SELECT"
      /\ last.arg \in DOMAIN Asked
      /\ Asked[last.arg].where
      /\ Asked[last.arg].table \in DOMAIN last.pre.tables
      /\ Asked[last.arg].column \notin ColumnNames(last.pre.tables[Asked[last.arg].table]) )
    => /\ Len(last.pre.tables[Asked[last.arg].table].rows) > 0
             => last.err = "ColumnNotFound"
       /\ Len(last.pre.tables[Asked[last.arg].table].rows) = 0
             => (last.err = "ok" /\ last.rows = << >>)
       /\ db = last.pre

\* a SELECT on a column the table's two rows do not have raised ColumnNotFound
SelectMissingColumnWitness ==
    /\ last.op = "SELECT"
    /\ last.arg \in DOMAIN Asked
    /\ Asked[last.arg].where
    /\ Asked[last.arg].table \in DOMAIN db.tables
    /\ Asked[last.arg].column \notin ColumnNames(db.tables[Asked[last.arg].table])
    /\ Len(db.tables[Asked[last.arg].table].rows) = 2
    /\ last.err = "ColumnNotFound"
    /\ db = last.pre

(* ------------- CREATE TABLE on its own: one statement per behaviour ------- *)

\* the column names, the type keywords and the modifier texts a statement is
\* made of; each modifier text with what it declares, read by hand
ColNames == << cId, << "i","n","t","a","u","t","o" >> >>

TypeWords ==
    << [text |-> << "I","N","T" >>, type |-> "INT"],
       [text |-> << "i","n","t" >>, type |-> "INT"],
       [text |-> << "T","E","X","T" >>, type |-> "TEXT"] >>

Modifiers ==
    <<
      \* (no modifier)
      [text |-> << >>,
       auto |-> FALSE, primary |-> FALSE, notNull |-> FALSE, hasDefault |-> FALSE,
       default |-> JNull],
      \* AUTO_INCREMENT
      [text |-> << " ","A","U","T","O","_","I","N","C","R","E","M","E","N","T" >>,
       auto |-> TRUE, primary |-> FALSE, notNull |-> FALSE, hasDefault |-> FALSE,
       default |-> JNull],
      \* PRIMARY KEY
      [text |-> << " ","P","R","I","M","A","R","Y"," ","K","E","Y" >>,
       auto |-> FALSE, primary |-> TRUE, notNull |-> FALSE, hasDefault |-> FALSE,
       default |-> JNull],
      \* NOT NULL
      [text |-> << " ","N","O","T"," ","N","U","L","L" >>,
       auto |-> FALSE, primary |-> FALSE, notNull |-> TRUE, hasDefault |-> FALSE,
       default |-> JNull],
      \* DEFAULT 5
      [text |-> << " ","D","E","F","A","U","L","T"," ","5" >>,
       auto |-> FALSE, primary |-> FALSE, notNull |-> FALSE, hasDefault |-> TRUE,
       default |-> JInt(5)],
      \* DEFAULT "x"
      [text |-> << " ","D","E","F","A","U","L","T"," ","\"","x","\"" >>,
       auto |-> FALSE, primary |-> FALSE, notNull |-> FALSE, hasDefault |-> TRUE,
       default |-> JStr(<< "x" >>)],
      \* NOT NULL DEFAULT 5
      [text |-> << " ","N","O","T"," ","N","U","L","L"," ","D","E","F","A","U","L","T"," ","5" >>,
       auto |-> FALSE, primary |-> FALSE, notNull |-> TRUE, hasDefault |-> TRUE,
       default |-> JInt(5)],
      \* DEFAULT 5 NOT NULL
      [text |-> << " ","D","E","F","A","U","L","T"," ","5"," ","N","O","T"," ","N","U","L","L" >>,
       auto |-> FALSE, primary |-> FALSE, notNull |-> TRUE, hasDefault |-> TRUE,
       default |-> JInt(5)],
      \* default abc
      [text |-> << " ","d","e","f","a","u","l","t"," ","a","b","c" >>,
       auto |-> FALSE, primary |-> FALSE, notNull |-> FALSE, hasDefault |-> TRUE,
       default |-> JStr(<< "a","b","c" >>)],
      \* AUTO_INCREMENT PRIMARY KEY NOT NULL
      [text |-> << " ","A","U","T","O","_","I","N","C","R","E","M","E","N","T"," ","P","R","I","M","A","R","Y"," ","K","E","Y"," ","N","O","T"," ","N","U","L","L" >>,
       auto |-> TRUE, primary |-> TRUE, notNull |-> TRUE, hasDefault |-> FALSE,
       default |-> JNull],
      \* PRIMARY KEY DEFAULT true
      [text |-> << " ","P","R","I","M","A","R","Y"," ","K","E","Y"," ","D","E","F","A","U","L","T"," ","t","r","u","e" >>,
       auto |-> FALSE, primary |-> TRUE, notNull |-> FALSE, hasDefault |-> TRUE,
       default |-> JBool(TRUE)],
      \* primary key not null
      [text |-> << " ","p","r","i","m","a","r","y"," ","k","e","y"," ","n","o","t"," ","n","u","l","l" >>,
       auto |-> FALSE, primary |-> TRUE, notNull |-> TRUE, hasDefault |-> FALSE,
       default |-> JNull]
    >>

\* what follows the first column: nothing, or a second column z
Seconds ==
    << [text |-> << >>, cols |-> 0, primary |-> FALSE],
       [text |-> << ","," ","z"," ","I","N","T" >>, cols |-> 1, primary |-> FALSE],
       [text |-> << ","," ","z"," ","I","N","T"," ","P","R","I","M","A","R","Y"," ","K","E","Y" >>, cols |-> 1, primary |-> TRUE] >>

\* CREATE TABLE t (<name> <type><modifiers><second>)
CreateText(c) ==
    << "C","R","E","A","T","E"," ","T","A","B","L","E"," ","t"," ","(" >>
    \o ColNames[c[1]] \o << " " >> \o TypeWords[c[2]].text \o Modifiers[c[3]].text
    \o Seconds[c[4]].text \o << ")" >>

\* an empty database and a statement to give to ExecuteQuery
InitCreate ==
    /\ db = EmptyDb
    /\ \E n \in 1..Len(ColNames), ty \in 1..Len(TypeWords),
          m \in 1..Len(Modifiers), s \in 1..Len(Seconds) :
          last = [NoCall EXCEPT !.op = "drawn", !.arg = << n, ty, m, s >>]
    /\ assigned = EmptyMap

\* ExecuteQuery(db, query) on the statement drawn
CreateDrawn ==
    /\ last.op = "drawn"
    /\ \E r \in {ExecuteQuery(db, ParseStatement([text |-> CreateText(last.arg),
                                                  json |-> EmptyMap]))} :
          /\ db' = r.db
          /\ last' = [op |-> "create", arg |-> last.arg, err |-> r.err, pre |-> db,
                      rows |-> << >>]
    /\ UNCHANGED assigned

\* ExecuteQuery(db, "INSERT t {}") after the statement drawn
InsertEmpty ==
    /\ last.op \in {"create", "insert0"}
    /\ \E r \in {ExecuteQuery(db, Parsed[10])} :
          /\ WithinBounds(r.db)
          /\ db' = r.db
          /\ last' = [op |-> "insert0", arg |-> last.arg, err |-> r.err, pre |-> db,
                      rows |-> << >>]
    /\ UNCHANGED assigned

NextCreate ==
    \/ CreateDrawn
    \/ InsertEmpty

SpecCreate == InitCreate /\ [][NextCreate]_vars

(* ------------------------------- C15 -------------------------------------- *)

\* the flags the column at position i of the statement drawn declares
Declared(c, i) ==
    IF i = 1
    THEN [name |-> ColNames[c[1]], type |-> TypeWords[c[2]].type,
          auto |-> Modifiers[c[3]].auto, primary |-> Modifiers[c[3]].primary,
          notNull |-> Modifiers[c[3]].notNull]
    ELSE [name |-> << "z" >>, type |-> "INT",
          auto |-> FALSE, primary |-> Seconds[c[4]].primary, notNull |-> FALSE]

\* C15: a valid CREATE TABLE statement yields a table whose schema lists the
\* declared columns in order, each with its name and type, and with its
\* auto-increment, primary-key and not-null flags set exactly when the
\* keyword appears in the modifier text after the column's type, whatever the
\* column is called
CreateReadsModifiers ==
    last.op = "create" =>
        /\ last.err = "ok"
        /\ T \in DOMAIN db.tables
        /\ Len(db.tables[T].schema) = 1 + Seconds[last.arg[4]].cols
        /\ \A i \in 1..Len(db.tables[T].schema) :
              LET col  == db.tables[T].schema[i]
                  decl == Declared(last.arg, i)
              IN  /\ col.name = decl.name
                  /\ col.type = decl.type
                  /\ col.isAutoIncrement = decl.auto
                  /\ col.isPrimaryKey = decl.primary
                  /\ col.isNotNull = decl.notNull

(* ------------------------------- C16 -------------------------------------- *)

\* C16: for a column declared with DEFAULT <literal>, the stored default is
\* the literal that follows the word DEFAULT, whatever other modifiers stand
\* before or after it, and a row inserted without that column stores it
DefaultIsLiteral ==
    (/\ last.op \in {"create", "insert0"}
     /\ Modifiers[last.arg[3]].hasDefault
     /\ T \in DOMAIN db.tables) =>
        LET table == db.tables[T]
            col   == table.schema[1]
        IN  /\ col.hasDefault
            /\ col.defaultValue = Modifiers[last.arg[3]].default
            /\ (/\ last.op = "insert0"
                /\ last.err = "ok"
                /\ ~col.isAutoIncrement) =>
                   table.rows[Len(table.rows)][col.name].data = Modifiers[last.arg[3]].default

(* ------------------------------- C17 -------------------------------------- *)

\* the statements outside the grammar, read by hand, each with the failure
\* the grammar gives it:
\*   20 SELECT t WHERE id 1            (five tokens)
\*   21 DROP t                         (another leading keyword)
\*   23 SELECT t WHERE id = 1 extra    (a token after the value)
\*   24 two spaces                     (no token)
\*   25 SELECT t WHERE                 (three tokens)
\*   26 select t                       (the keyword in lower case)
Rejected ==
    (20 :> "InvalidSyntax") @@ (21 :> "UnknownCommand") @@ (23 :> "InvalidSyntax")
    @@ (24 :> "EmptyQuery") @@ (25 :> "InvalidSyntax") @@ (26 :> "UnknownCommand")

\* C17: ExecuteQuery rejects every statement outside the grammar and leaves
\* the database unchanged: EmptyQuery for a statement with no token,
\* UnknownCommand for a first token other than CREATE, INSERT or SELECT,
\* InvalidSyntax for a SELECT that is neither SELECT <t> nor
\* SELECT <t> WHERE <c> = <v>
OutsideGrammarRejected ==
    (/\ last.op \in {"CREATE", "INSERT", "SELECT", "unknown", "none"}
     /\ last.arg \in DOMAIN Rejected) =>
        /\ last.err = Rejected[last.arg]
        /\ db = last.pre

(* ------------------------------- C18 -------------------------------------- *)

\* the positions of the primary-key columns of a schema
PrimaryKeys(schema) == {i \in 1..Len(schema) : schema[i].isPrimaryKey}

\* C18: every table has at most one primary-key column
SinglePrimaryKey ==
    \A tn \in DOMAIN db.tables : Cardinality(PrimaryKeys(db.tables[tn].schema)) <= 1

(* ------------------------------- C19 -------------------------------------- *)

\* the integers stored in column c of the rows of a table
StoredInts(table, c) ==
    {table.rows[i][c].data.i : i \in {j \in 1..Len(table.rows) :
                                         table.rows[j][c].data.t = "int"}}

\* the last call is an INSERT into a table made by CREATE TABLE that leaves
\* out a column of the table that is both auto-increment and primary key
OmitsAutoKey ==
    /\ last.op = "INSERT"
    /\ Parsed[last.arg].err = "ok"
    /\ Parsed[last.arg].table \in (DOMAIN assigned) \cap (DOMAIN last.pre.tables)
    /\ \E i \in 1..Len(last.pre.tables[Parsed[last.arg].table].schema) :
          LET col == last.pre.tables[Parsed[last.arg].table].schema[i]
          IN  /\ col.isAutoIncrement
              /\ col.isPrimaryKey
              /\ col.name \notin DOMAIN Parsed[last.arg].values

\* C19: in the states reached by CREATE TABLE and INSERT statements, the
\* counter of each auto-increment column is strictly greater than every
\* integer stored in that column, and so an INSERT that leaves out an
\* AUTO_INCREMENT PRIMARY KEY column never fails with DuplicatePrimaryKey
CounterAboveStored ==
    /\ \A tn \in (DOMAIN assigned) \cap (DOMAIN db.tables) :
          \A c \in DOMAIN db.tables[tn].autoIncCounters :
              \A v \in StoredInts(db.tables[tn], c) :
                  v < db.tables[tn].autoIncCounters[c]
    /\ OmitsAutoKey => last.err # "DuplicatePrimaryKey"

====
